---- MODULE Spec2Model ----
(***************************************************************************)
(* Response parser of style-guider: cleanResponse, validateResponse,       *)
(* evaluateRecoveryPotential, attemptJsonRepair, extractValidFragments,    *)
(* createFallbackFromFragments, validateAndRepair, cleanAndParseResponse   *)
(* and the process-wide parserTelemetry counters.                          *)
(*                                                                         *)
(* A text is a sequence of characters.  The three property names, the     *)
(* literal null, the markdown fence and its language tag are written as    *)
(* one element each ("original", "null", "json", the fence): the code only     *)
(* ever tests them as whole words.                                         *)
(***************************************************************************)
EXTENDS Integers, Sequences, FiniteSets, TLC

\* ---------------------------------------------------------------- characters
Q  == "\""
BS == "\\"
NL == "\n"
CR == "\r"
SP == " "
LB == "["
RB == "]"
LC == "{"
RC == "}"
CM == ","
CL == ":"
DASH == "-"
EMDASH == "EM"
ENDASH == "EN"
FENCE == "FENCE"
DEL == "DEL"
TAG == "json"
\* typographic characters: double and single quotes, the ellipsis glyph
\* U+2026 and the zero-width space U+200B, which is no white space to \s
\* and trim
LDQUO == "LDQUO"
RDQUO == "RDQUO"
LSQUO == "LSQUO"
RSQUO == "RSQUO"
ELLIPSIS == "ELLIPSIS"
ZWSP == "ZWSP"

PropertyNames == <<"original", "replacement", "reason">>

\* \s of a JavaScript regular expression and String.prototype.trim
IsWs(c) == c \in {SP, NL, CR}

\* [\x00-\x1F\x7F-\x9F]; DEL is U+007F
IsControl(c) == c \in {NL, CR, DEL}

\* the characters below U+0020, which JSON.parse refuses inside a string
IsJsonControl(c) == c \in {NL, CR}

RECURSIVE SkipWs(_, _)
SkipWs(s, i) == IF i <= Len(s) /\ IsWs(s[i]) THEN SkipWs(s, i + 1) ELSE i

RECURSIVE SkipWsBack(_, _)
SkipWsBack(s, i) == IF i >= 1 /\ IsWs(s[i]) THEN SkipWsBack(s, i - 1) ELSE i

trim(s) == SubSeq(s, SkipWs(s, 1), SkipWsBack(s, Len(s)))

startsWith(s, c) == Len(s) >= 1 /\ s[1] = c
endsWith(s, c) == Len(s) >= 1 /\ s[Len(s)] = c

\* String.prototype.includes
includes(s, w) ==
  \E i \in 1..(Len(s) - Len(w) + 1) : SubSeq(s, i, i + Len(w) - 1) = w

\* A loop over the indices lo..hi of the text s: step(s, st, i) is the loop
\* body, st the loop's variables (a record).  The range is halved so that the
\* evaluation stays shallow; the test on DOMAIN makes TLC finish the left
\* half before it starts on the right one.
RECURSIVE FoldRange(_, _, _, _, _)
FoldRange(step(_, _, _), s, lo, hi, st) ==
  IF lo > hi THEN st
  ELSE IF lo = hi THEN step(s, st, lo)
  ELSE LET mid == (lo + hi) \div 2
           rest(left) ==
             IF DOMAIN left = {} THEN left
             ELSE FoldRange(step, s, mid + 1, hi, left)
       IN rest(FoldRange(step, s, lo, mid, st))

\* String.prototype.replace with a global regular expression: match(s, i) says
\* whether the expression matches at index i, where the match ends (last) and
\* what replaces it (text); matches are taken leftmost and do not overlap
ReplaceAll(match(_, _), s) ==
  LET replace(t, st, i, m) ==
        IF m.found THEN [out |-> st.out \o m.text, next |-> m.last + 1]
        ELSE [out |-> Append(st.out, t[i]), next |-> i + 1]
      step(t, st, i) == IF i < st.next THEN st ELSE replace(t, st, i, match(t, i))
  IN FoldRange(step, s, 1, Len(s), [out |-> <<>>, next |-> 1]).out

NoMatch == [found |-> FALSE, last |-> 0, text |-> <<>>]
Match(last, text) == [found |-> TRUE, last |-> last, text |-> text]

\* ------------------------------------------------------------- JSON values
JStr(cs)  == [t |-> "string", v |-> cs]
JNum(ds)  == [t |-> "number", v |-> ds]
JNull     == [t |-> "null",   v |-> <<>>]
JArr(es)  == [t |-> "array",  v |-> es]
JObj(ms)  == [t |-> "object", v |-> ms]

Fail == [ok |-> FALSE, val |-> JNull, pos |-> 0]
Ok(val, pos) == [ok |-> TRUE, val |-> val, pos |-> pos]

\* escape sequences of a JSON string literal that the alphabet can spell
Unescape ==
  (Q :> <<Q>>) @@ (BS :> <<BS>>) @@ ("n" :> <<NL>>) @@
  ("reason" :> <<CR, "eason">>) @@ ("replacement" :> <<CR, "eplacement">>)

\* the characters of a string literal from index j (after the opening
\* quote) to its closing quote
ScanString(s, j) ==
  LET step(t, st, i) ==
        IF st.done \/ i < st.next THEN st
        ELSE IF t[i] = Q THEN [st EXCEPT !.done = TRUE, !.ok = TRUE, !.next = i + 1]
        ELSE IF t[i] = BS THEN
          IF i + 1 <= Len(t) /\ t[i + 1] \in DOMAIN Unescape
          THEN [st EXCEPT !.acc = @ \o Unescape[t[i + 1]], !.next = i + 2]
          ELSE [st EXCEPT !.done = TRUE]
        ELSE IF IsJsonControl(t[i]) THEN [st EXCEPT !.done = TRUE]
        ELSE [st EXCEPT !.acc = Append(@, t[i]), !.next = i + 1]
      result(end) == IF end.ok THEN Ok(JStr(end.acc), end.next) ELSE Fail
  IN result(FoldRange(step, s, j, Len(s),
                      [done |-> FALSE, ok |-> FALSE, acc |-> <<>>, next |-> j]))

RECURSIVE ScanDigits(_, _)
ScanDigits(s, i) == IF i <= Len(s) /\ s[i] = "1" THEN ScanDigits(s, i + 1) ELSE i

ScanNumber(s, i) ==
  LET d == IF s[i] = DASH THEN i + 1 ELSE i
      e == ScanDigits(s, d)
  IN IF e > d THEN Ok(JNum(SubSeq(s, i, e - 1)), e) ELSE Fail

\* an object keeps one value per key: a repeated key overwrites in place
RECURSIVE PutMember(_, _, _)
PutMember(ms, k, val) ==
  IF ms = <<>> THEN << [k |-> k, val |-> val] >>
  ELSE IF Head(ms).k = k THEN << [k |-> k, val |-> val] >> \o Tail(ms)
  ELSE << Head(ms) >> \o PutMember(Tail(ms), k, val)

\* A recursive-descent reading of JSON.parse.  AfterElement, AfterKey and
\* AfterMember continue with what was just read: r, key are results of
\* ParseValue and ScanString, acc the elements or members read so far.
RECURSIVE ParseValue(_, _), ParseElements(_, _, _), AfterElement(_, _, _)
RECURSIVE ParseMembers(_, _, _), AfterKey(_, _, _), AfterMember(_, _, _, _)
ParseValue(s, i0) ==
  LET i == SkipWs(s, i0) IN
  IF i > Len(s) THEN Fail
  ELSE IF s[i] = Q THEN ScanString(s, i + 1)
  ELSE IF s[i] = "null" THEN Ok(JNull, i + 1)
  ELSE IF s[i] \in {"1", DASH} THEN ScanNumber(s, i)
  ELSE IF s[i] = LB THEN
    LET j == SkipWs(s, i + 1) IN
    IF j <= Len(s) /\ s[j] = RB THEN Ok(JArr(<<>>), j + 1)
    ELSE ParseElements(s, i + 1, <<>>)
  ELSE IF s[i] = LC THEN
    LET j == SkipWs(s, i + 1) IN
    IF j <= Len(s) /\ s[j] = RC THEN Ok(JObj(<<>>), j + 1)
    ELSE ParseMembers(s, i + 1, <<>>)
  ELSE Fail

ParseElements(s, i, acc) == AfterElement(s, acc, ParseValue(s, i))

AfterElement(s, acc, r) ==
  IF ~r.ok THEN Fail
  ELSE LET j == SkipWs(s, r.pos) IN
       IF j > Len(s) THEN Fail
       ELSE IF s[j] = CM THEN ParseElements(s, j + 1, Append(acc, r.val))
       ELSE IF s[j] = RB THEN Ok(JArr(Append(acc, r.val)), j + 1)
       ELSE Fail

ParseMembers(s, i, acc) ==
  LET k == SkipWs(s, i) IN
  IF k > Len(s) \/ s[k] # Q THEN Fail ELSE AfterKey(s, acc, ScanString(s, k + 1))

AfterKey(s, acc, key) ==
  IF ~key.ok THEN Fail
  ELSE LET c == SkipWs(s, key.pos) IN
       IF c > Len(s) \/ s[c] # CL THEN Fail
       ELSE AfterMember(s, acc, key, ParseValue(s, c + 1))

AfterMember(s, acc, key, r) ==
  IF ~r.ok THEN Fail
  ELSE LET j == SkipWs(s, r.pos)
           ms == PutMember(acc, key.val.v, r.val)
       IN IF j > Len(s) THEN Fail
          ELSE IF s[j] = CM THEN ParseMembers(s, j + 1, ms)
          ELSE IF s[j] = RC THEN Ok(JObj(ms), j + 1)
          ELSE Fail

\* the value read must be the whole text
WholeText(s, r) ==
  IF r.ok /\ SkipWs(s, r.pos) = Len(s) + 1
  THEN [ok |-> TRUE, val |-> r.val]
  ELSE [ok |-> FALSE, val |-> JNull]

\* JSON.parse: [ok |-> FALSE] stands for the SyntaxError it throws
JSONParse(s) == WholeText(s, ParseValue(s, 1))

\* Quote that escapes nothing
QuoteNothing(cs) == cs

\* escaping done by JSON.stringify inside a string literal
Quote(cs) ==
  LET step(t, st, i) ==
        [out |-> st.out \o
           (CASE t[i] = Q  -> <<BS, Q>>
              [] t[i] = BS -> <<BS, BS>>
              [] t[i] = NL -> <<BS, "n">>
              [] t[i] = CR -> <<BS, "r">>
              [] OTHER -> << t[i] >>)]
  IN FoldRange(step, cs, 1, Len(cs), [out |-> <<>>]).out

RECURSIVE JSONStringify(_), StringifyElements(_), StringifyMembers(_)
JSONStringify(val) ==
  CASE val.t = "string" -> <<Q>> \o Quote(val.v) \o <<Q>>
    [] val.t = "number" -> val.v
    [] val.t = "null"   -> <<"null">>
    [] val.t = "array"  -> <<LB>> \o StringifyElements(val.v) \o <<RB>>
    [] val.t = "object" -> <<LC>> \o StringifyMembers(val.v) \o <<RC>>

StringifyElements(es) ==
  IF es = <<>> THEN <<>>
  ELSE JSONStringify(Head(es)) \o
       (IF Len(es) > 1 THEN <<CM>> \o StringifyElements(Tail(es)) ELSE <<>>)

StringifyMembers(ms) ==
  IF ms = <<>> THEN <<>>
  ELSE <<Q>> \o Quote(Head(ms).k) \o <<Q, CL>> \o JSONStringify(Head(ms).val) \o
       (IF Len(ms) > 1 THEN <<CM>> \o StringifyMembers(Tail(ms)) ELSE <<>>)

\* ------------------------------------------------------------ cleanResponse
\* replace(/^```json\s+|\s+```$/g, '') and replace(/^```\s+|\s+```$/g, ''):
\* opening is the fence with or without its language tag
StripFence(s, opening) ==
  LET n == Len(opening)
      hasOpen == Len(s) > n /\ SubSeq(s, 1, n) = opening /\ IsWs(s[n + 1])
      k == IF hasOpen THEN SkipWs(s, n + 1) ELSE 1
      rest == SubSeq(s, k, Len(s))
      m == Len(rest)
      hasClose == m >= 2 /\ rest[m] = FENCE /\ IsWs(rest[m - 1])
  IN IF hasClose THEN SubSeq(rest, 1, SkipWsBack(rest, m - 1)) ELSE rest

\* NormalizeChars with \s in the class of characters it strips
NormalizeCharsAndSpaces(s) ==
  LET match(t, i) ==
        CASE t[i] = EMDASH -> Match(i, <<DASH, DASH>>)
          [] t[i] = ENDASH -> Match(i, <<DASH>>)
          [] IsControl(t[i]) \/ IsWs(t[i]) -> Match(i, <<>>)
          [] OTHER -> NoMatch
  IN ReplaceAll(match, s)

\* the character replacements of lines 38-46: em dash, en dash, control
\* characters; the expressions of lines 38-41 hold the ASCII quote and the
\* ASCII apostrophe only, which they map to themselves, and no expression
\* names the ellipsis glyph or the zero-width space
NormalizeChars(s) ==
  LET match(t, i) ==
        CASE t[i] = EMDASH -> Match(i, <<DASH, DASH>>)
          [] t[i] = ENDASH -> Match(i, <<DASH>>)
          [] IsControl(t[i]) -> Match(i, <<>>)
          [] OTHER -> NoMatch
  IN ReplaceAll(match, s)

\* trimmed.replace(/"/g, '\\"')
EscapeQuotes(s) ==
  LET match(t, i) == IF t[i] = Q THEN Match(i, <<BS, Q>>) ELSE NoMatch
  IN ReplaceAll(match, s)

\* replace(/a(\s*)b/g, 'a,\n$1b') for the pairs }{  "{  }"
InsertComma(s, a, b) ==
  LET match(t, i) ==
        LET j == SkipWs(t, i + 1) IN
        IF t[i] = a /\ j <= Len(t) /\ t[j] = b
        THEN Match(j, <<a, CM, NL>> \o SubSeq(t, i + 1, j))
        ELSE NoMatch
  IN ReplaceAll(match, s)

FixMissingCommas(s) ==
  InsertComma(InsertComma(InsertComma(s, RC, LC), Q, LC), RC, Q)

\* replace(/([{,]\s*)(prop)(\s*:)/g, '$1"$2"$3')
QuoteProperty(s, prop) ==
  LET match(t, i) ==
        LET j == SkipWs(t, i + 1)
            k == SkipWs(t, j + 1)
        IN IF /\ t[i] \in {LC, CM}
              /\ j <= Len(t) /\ t[j] = prop
              /\ k <= Len(t) /\ t[k] = CL
           THEN Match(k, SubSeq(t, i, j - 1) \o <<Q, prop, Q>> \o SubSeq(t, j + 1, k))
           ELSE NoMatch
  IN ReplaceAll(match, s)

FixUnquotedProperties(s) ==
  QuoteProperty(QuoteProperty(QuoteProperty(s, PropertyNames[1]),
                              PropertyNames[2]), PropertyNames[3])

\* replace(/,(\s*)\]/g, '\n]')
FixTrailingCommas(s) ==
  LET match(t, i) ==
        LET j == SkipWs(t, i + 1) IN
        IF t[i] = CM /\ j <= Len(t) /\ t[j] = RB THEN Match(j, <<NL, RB>>)
        ELSE NoMatch
  IN ReplaceAll(match, s)

\* (?:\\.|[^"\\])* from index j, greedy: the index where it stops (the dot
\* matches no line terminator).  Every iteration starts on a backslash or on
\* a character that is not a quote, so giving iterations back never exposes
\* a closing quote.
ScanStringBody(s, j) ==
  LET step(t, st, i) ==
        IF st.done \/ i < st.next THEN st
        ELSE IF t[i] = BS THEN
          IF i + 1 <= Len(t) /\ t[i + 1] \notin {NL, CR}
          THEN [st EXCEPT !.next = i + 2]
          ELSE [st EXCEPT !.done = TRUE]
        ELSE IF t[i] = Q THEN [st EXCEPT !.done = TRUE]
        ELSE [st EXCEPT !.next = i + 1]
  IN FoldRange(step, s, j, Len(s), [done |-> FALSE, next |-> j]).next

\* content.replace(/([^\\])"/g, '$1\\"')
EscapeInnerQuotes(content) ==
  LET match(t, i) ==
        IF i + 1 <= Len(t) /\ t[i] # BS /\ t[i + 1] = Q
        THEN Match(i + 1, <<t[i], BS, Q>>)
        ELSE NoMatch
  IN ReplaceAll(match, content)

\* processed.replace(stringRegex, callback)
EscapeStringLiterals(s) ==
  LET match(t, i) ==
        LET e == ScanStringBody(t, i + 1) IN
        IF t[i] = Q /\ e <= Len(t) /\ t[e] = Q
        THEN Match(e, <<Q>> \o EscapeInnerQuotes(SubSeq(t, i + 1, e - 1)) \o <<Q>>)
        ELSE NoMatch
  IN ReplaceAll(match, s)

EnsureArrayWrapper(s) ==
  LET s1 == IF startsWith(s, LB) THEN s ELSE <<LB>> \o s
  IN IF endsWith(s1, RB) THEN s1 ELSE Append(s1, RB)

\* the three cases of lines 51-100, trimmed the text of line 49
cleanTrimmed(trimmed) ==
  IF ~startsWith(trimmed, LB) /\ ~startsWith(trimmed, LC)
  THEN <<LB, Q>> \o EscapeQuotes(trimmed) \o <<Q, RB>>
  ELSE IF JSONParse(trimmed).ok THEN trimmed
  ELSE EscapeStringLiterals(
         FixTrailingCommas(
           FixUnquotedProperties(
             FixMissingCommas(EnsureArrayWrapper(trimmed)))))

cleanResponse(response) ==
  IF response = <<>> THEN <<>>
  ELSE cleanTrimmed(trim(NormalizeChars(
         StripFence(StripFence(response, <<FENCE, TAG>>), <<FENCE>>))))

\* -------------------------------------------------------- validateResponse
Valid == [isValid |-> TRUE, errorType |-> "null", position |-> -1]
Invalid(type, position) ==
  [isValid |-> FALSE, errorType |-> type, position |-> position]

\* the bracket balancing loop; position is the 0-based index, -1 for null
ScanBrackets(s) ==
  LET step(t, st, i) ==
        IF ~st.result.isValid THEN st
        ELSE IF st.escapeNext THEN [st EXCEPT !.escapeNext = FALSE]
        ELSE IF t[i] = BS THEN [st EXCEPT !.escapeNext = TRUE]
        ELSE IF t[i] = Q THEN [st EXCEPT !.inString = ~@]
        ELSE IF ~st.inString /\ t[i] = LB
          THEN [st EXCEPT !.bracketCount = @ + 1]
        ELSE IF ~st.inString /\ t[i] = RB
          THEN IF st.bracketCount - 1 < 0
               THEN [st EXCEPT !.result = Invalid("unbalanced_brackets", i - 1)]
               ELSE [st EXCEPT !.bracketCount = @ - 1]
        ELSE st
      balance(end) ==
        IF ~end.result.isValid THEN end.result
        ELSE IF end.bracketCount > 0 THEN Invalid("unbalanced_brackets", -1)
        ELSE Valid
  IN balance(FoldRange(step, s, 1, Len(s),
                       [bracketCount |-> 0, inString |-> FALSE,
                        escapeNext |-> FALSE, result |-> Valid]))

validateJsonArrayStructure(response) ==
  LET structure(trimmedResponse) ==
        IF ~startsWith(trimmedResponse, LB) THEN Invalid("missing_opening_bracket", 0)
        ELSE IF ~endsWith(trimmedResponse, RB)
             THEN Invalid("missing_closing_bracket", Len(trimmedResponse))
        ELSE ScanBrackets(trimmedResponse)
  IN structure(trim(response))

\* obj[k] of JavaScript: "undefined" when the object has no such member
Undefined == [t |-> "undefined", v |-> <<>>]
RECURSIVE GetMember(_, _)
GetMember(ms, k) ==
  IF ms = <<>> THEN Undefined
  ELSE IF Head(ms).k = k THEN Head(ms).val ELSE GetMember(Tail(ms), k)

\* segment.original and friends; an array has no such property
Property(segment, name) ==
  IF segment.t = "object" THEN GetMember(segment.v, <<name>>) ELSE Undefined

\* JavaScript truthiness (the alphabet spells no zero)
Truthy(val) ==
  CASE val.t = "string" -> val.v # <<>>
    [] val.t \in {"null", "undefined"} -> FALSE
    [] OTHER -> TRUE

\* typeof x === 'object'
TypeofObject(val) == val.t \in {"object", "array", "null"}

\* the for loop over parsed: the result for the first offending index
RECURSIVE ValidateSegments(_, _)
ValidateSegments(parsed, i) ==
  IF i > Len(parsed) THEN Valid
  ELSE LET segment == parsed[i] IN
    IF segment.t # "string" /\ ~TypeofObject(segment)
    THEN Invalid("invalid_segment_type", -1)
    ELSE IF TypeofObject(segment) /\ segment.t # "null"
      THEN IF \E n \in 1..3 : ~Truthy(Property(segment, PropertyNames[n]))
           THEN Invalid("invalid_change_object", -1)
           ELSE IF \E n \in 1..3 : Property(segment, PropertyNames[n]).t # "string"
           THEN Invalid("invalid_field_type", -1)
           ELSE ValidateSegments(parsed, i + 1)
      ELSE ValidateSegments(parsed, i + 1)

\* validateParsed reporting a parse failure under the type of the first check
validateParsedAsInput(parsed) ==
  IF ~parsed.ok THEN Invalid("invalid_input", -1)
  ELSE IF parsed.val.t # "array" THEN Invalid("not_array", -1)
  ELSE IF Len(parsed.val.v) = 0 THEN Invalid("empty_array", -1)
  ELSE ValidateSegments(parsed.val.v, 1)

\* validateParsed without the check of parsed.length
validateParsedAllowingEmpty(parsed) ==
  IF ~parsed.ok THEN Invalid("parse_error", -1)
  ELSE IF parsed.val.t # "array" THEN Invalid("not_array", -1)
  ELSE ValidateSegments(parsed.val.v, 1)

\* lines 113-180: what validateResponse checks of the parsed value
validateParsed(parsed) ==
  IF ~parsed.ok THEN Invalid("parse_error", -1)
  ELSE IF parsed.val.t # "array" THEN Invalid("not_array", -1)
  ELSE IF Len(parsed.val.v) = 0 THEN Invalid("empty_array", -1)
  ELSE ValidateSegments(parsed.val.v, 1)

\* lines 97-111: the checks on the trimmed text
validateTrimmed(trimmedResponse) ==
  IF Len(trimmedResponse) = 0 THEN Invalid("empty_response", -1)
  ELSE LET structureResult == validateJsonArrayStructure(trimmedResponse) IN
       IF ~structureResult.isValid THEN structureResult
       ELSE validateParsed(JSONParse(trimmedResponse))

validateResponse(response) ==
  IF response = <<>> THEN Invalid("invalid_input", -1)
  ELSE validateTrimmed(trim(response))

\* ---------------------------------------------------------- parserRecovery
\* new RegExp(`(\\{|,)\\s*(${prop})\\s*:`, 'g') replaced by `$1 "${prop}":`
RequoteProperty(s, prop) ==
  LET match(t, i) ==
        LET j == SkipWs(t, i + 1)
            k == SkipWs(t, j + 1)
        IN IF /\ t[i] \in {LC, CM}
              /\ j <= Len(t) /\ t[j] = prop
              /\ k <= Len(t) /\ t[k] = CL
           THEN Match(k, <<t[i], SP, Q, prop, Q, CL>>)
           ELSE NoMatch
  IN ReplaceAll(match, s)

\* [ok |-> FALSE] stands for the null that tryParseObject and the string
\* branch hand back
NoFragment == [ok |-> FALSE, val |-> JNull]

\* lines 129-133: parsed && typeof parsed === 'object' && the three fields
acceptObject(parsed) ==
  IF /\ parsed.ok
     /\ Truthy(parsed.val) /\ TypeofObject(parsed.val)
     /\ \A n \in 1..3 : Truthy(Property(parsed.val, PropertyNames[n]))
  THEN [ok |-> TRUE, val |-> parsed.val]
  ELSE NoFragment

tryParseObject(text) ==
  LET cleanText == trim(text) IN
  IF ~startsWith(cleanText, LC) \/ ~endsWith(cleanText, RC) THEN NoFragment
  ELSE acceptObject(JSONParse(
         RequoteProperty(RequoteProperty(RequoteProperty(cleanText,
           PropertyNames[1]), PropertyNames[2]), PropertyNames[3])))

\* lines 62-66: typeof parsed === 'string' && parsed.trim().length > 0
acceptString(parsed) ==
  IF parsed.ok /\ parsed.val.t = "string" /\ Len(trim(parsed.val.v)) > 0
  THEN [ok |-> TRUE, val |-> parsed.val]
  ELSE NoFragment

\* the string branch: JSON.parse(currentFragment)
tryParseString(text) == acceptString(JSONParse(text))

\* fragments.push(parsed) when there is something to push
pushFragment(fragments, parsed) ==
  IF parsed.ok THEN Append(fragments, parsed.val) ELSE fragments

\* one iteration of the character loop of extractValidFragments
fragmentStep(response, st, i) ==
  LET char == response[i] IN
  IF st.escapeNext
    THEN [st EXCEPT !.currentFragment = Append(@, char), !.escapeNext = FALSE]
  ELSE IF char = BS
    THEN [st EXCEPT !.currentFragment = Append(@, char), !.escapeNext = TRUE]
  ELSE IF char = Q /\ ~st.inObject THEN
    IF ~st.inString
    THEN [st EXCEPT !.inString = TRUE, !.currentFragment = <<Q>>]
    ELSE [st EXCEPT
            !.fragments = pushFragment(@, tryParseString(Append(st.currentFragment, Q))),
            !.inString = FALSE, !.currentFragment = <<>>]
  ELSE IF ~st.inString /\ char = LC THEN
    IF ~st.inObject
    THEN [st EXCEPT !.inObject = TRUE, !.objectDepth = 1,
                    !.currentFragment = <<LC>>]
    ELSE [st EXCEPT !.objectDepth = @ + 1,
                    !.currentFragment = Append(@, char)]
  ELSE IF ~st.inString /\ st.inObject /\ char = RC THEN
    IF st.objectDepth - 1 = 0
    THEN [st EXCEPT
            !.fragments = pushFragment(@, tryParseObject(Append(st.currentFragment, char))),
            !.objectDepth = 0, !.inObject = FALSE, !.currentFragment = <<>>]
    ELSE [st EXCEPT !.objectDepth = @ - 1,
                    !.currentFragment = Append(@, char)]
  ELSE IF st.inString \/ st.inObject
    THEN [st EXCEPT !.currentFragment = Append(@, char)]
  ELSE st

\* lines 108-146: the salvage of an object left open when the loop ends
salvageFragment(end) ==
  IF end.inObject
  THEN pushFragment(end.fragments, tryParseObject(Append(end.currentFragment, RC)))
  ELSE end.fragments

extractValidFragments(response) ==
  salvageFragment(FoldRange(fragmentStep, response, 1, Len(response),
                            [fragments |-> <<>>, currentFragment |-> <<>>,
                             inString |-> FALSE, inObject |-> FALSE,
                             objectDepth |-> 0, escapeNext |-> FALSE]))

attemptJsonRepair(response) ==
  FixUnquotedProperties(
    FixTrailingCommas(FixMissingCommas(EnsureArrayWrapper(trim(response)))))

\* lines 201-209: the fragments, or the raw text as a single segment
fallbackFromFragments(response, fragments) ==
  IF Len(fragments) > 0
  THEN [array |-> JArr(fragments), via |-> "extractValidFragments"]
  ELSE [array |-> JArr(<< JStr(trim(response)) >>), via |-> "rawText"]

\* lines 195-199: the repaired text when JSON.parse accepts it
fallbackFromRepair(response, parsed) ==
  IF parsed.ok THEN [array |-> parsed.val, via |-> "attemptJsonRepair"]
  ELSE fallbackFromFragments(response, extractValidFragments(response))

\* via records which branch produced the array
createFallbackFromFragments(response) ==
  fallbackFromRepair(response, JSONParse(attemptJsonRepair(response)))

\* (response.match(/"/g) || []).length
CountQuotes(s) == Cardinality({i \in 1..Len(s) : s[i] = Q})

evaluateRecoveryPotential(response) ==
  LET hasOpeningBracket == startsWith(trim(response), LB)
      hasClosingBracket == endsWith(trim(response), RB)
      quoted(n) == includes(response, <<Q, PropertyNames[n], Q>>)
      bare(n) == includes(response, <<PropertyNames[n], CL>>)
      hasChangeObjects ==
        \/ quoted(1) \/ bare(1)
        \/ ((quoted(2) \/ bare(2)) /\ (quoted(3) \/ bare(3)))
      unbalancedQuotes == CountQuotes(response) % 2 # 0
      missingComma ==
        \E i \in 1..Len(response) :
          /\ response[i] = RC
          /\ SkipWs(response, i + 1) <= Len(response)
          /\ response[SkipWs(response, i + 1)] = LC
      unquoted == \E n \in 1..3 : bare(n)
      score == (IF hasOpeningBracket THEN 20 ELSE 0)
             + (IF hasClosingBracket THEN 20 ELSE 0)
             + (IF hasChangeObjects THEN 30 ELSE 0)
             - (IF unbalancedQuotes THEN 15 ELSE 0)
             - (IF missingComma THEN 5 ELSE 0)
             + (IF unquoted THEN 5 ELSE 0)
  IN [recoverabilityScore |-> score,
      identifiedIssues |->
        (IF ~hasOpeningBracket THEN <<"missing_opening_bracket">> ELSE <<>>) \o
        (IF ~hasClosingBracket THEN <<"missing_closing_bracket">> ELSE <<>>) \o
        (IF ~hasChangeObjects THEN <<"no_change_objects_detected">> ELSE <<>>) \o
        (IF unbalancedQuotes THEN <<"unbalanced_quotes">> ELSE <<>>) \o
        (IF missingComma THEN <<"missing_comma_between_objects">> ELSE <<>>) \o
        (IF unquoted THEN <<"unquoted_property_names">> ELSE <<>>),
      recommendedApproach |->
        IF score >= 50 THEN "json_repair"
        ELSE IF score >= 20 THEN "fragment_extraction"
        ELSE "raw_text_fallback"]

\* ---------------------------------------------------------- responseParser
\* The stage in which an exception the pipeline does not anticipate (a
\* RangeError of the regular expression engine, say) is raised; "none" in a
\* call where nothing of the kind happens.
Stages == {"cleanResponse", "validateResponse", "evaluateRecoveryPotential",
           "createFallbackFromFragments", "JSON.parse"}

\* What validateAndRepair hands back.  raisedIn: the stage in which the
\* unanticipated exception was raised, "none" when the call never got there;
\* raised: it left validateAndRepair
RepairResult(raised, raisedIn, isValid, response, usedFallback, validationResult, via, stages) ==
  [raised |-> raised, raisedIn |-> raisedIn, isValid |-> isValid,
   response |-> response, usedFallback |-> usedFallback,
   validationResult |-> validationResult, via |-> via, stages |-> stages]

RecoveryStages ==
  <<"validateResponse", "evaluateRecoveryPotential", "createFallbackFromFragments">>

\* lines 126-135: the fallback is used when it is a non-empty array
useFallback(validationResult, fallback) ==
  IF fallback.array.t = "array" /\ Len(fallback.array.v) > 0
  THEN RepairResult(FALSE, "none", TRUE, JSONStringify(fallback.array), TRUE,
                    validationResult, fallback.via, RecoveryStages)
  ELSE RepairResult(FALSE, "none", FALSE, <<>>, FALSE, validationResult, "none",
                    RecoveryStages)

\* lines 119-140: recovery is tried at a score of 50 or more; the catch of
\* lines 137-139 swallows what createFallbackFromFragments raises
recover(cleanedResponse, fault, validationResult, recoveryPotential) ==
  IF recoveryPotential.recoverabilityScore >= 50 THEN
    IF fault = "createFallbackFromFragments"
    THEN RepairResult(FALSE, "createFallbackFromFragments", FALSE, <<>>, FALSE,
                      validationResult, "none", RecoveryStages)
    ELSE useFallback(validationResult, createFallbackFromFragments(cleanedResponse))
  ELSE RepairResult(FALSE, "none", FALSE, <<>>, FALSE, validationResult, "none",
                    <<"validateResponse", "evaluateRecoveryPotential">>)

\* lines 111-147: a valid response is handed back as it is
repair(cleanedResponse, fault, validationResult) ==
  IF validationResult.isValid
  THEN RepairResult(FALSE, "none", TRUE, cleanedResponse, FALSE, validationResult,
                    "none", <<"validateResponse">>)
  ELSE IF fault = "evaluateRecoveryPotential"
  THEN RepairResult(TRUE, "evaluateRecoveryPotential", FALSE, <<>>, FALSE, Valid,
                    "none", <<"validateResponse", "evaluateRecoveryPotential">>)
  ELSE recover(cleanedResponse, fault, validationResult,
               evaluateRecoveryPotential(cleanedResponse))

validateAndRepair(cleanedResponse, fault) ==
  IF fault = "validateResponse"
  THEN RepairResult(TRUE, "validateResponse", FALSE, <<>>, FALSE, Valid, "none",
                    <<"validateResponse">>)
  ELSE repair(cleanedResponse, fault, validateResponse(cleanedResponse))

\* ParserError.fromValidationResult: errorType || 'validation_failed'
fromValidationResult(validationResult) ==
  IF validationResult.errorType = "null" THEN "validation_failed"
  ELSE validationResult.errorType

\* Thrown with a catch that throws again whatever it caught
ThrownAsCaught(caught, errorType, stages, raisedIn) ==
  [outcome |-> "threw", value |-> JNull, errorClass |-> caught,
   errorType |-> IF caught = "ParserError" THEN errorType ELSE "none",
   caught |-> caught, raisedIn |-> raisedIn, counter |-> "failureCount",
   usedFallback |-> FALSE, via |-> "none", stages |-> stages]

\* What one call does: outcome is "returned" (value is the array) or "threw"
\* (errorClass, errorType describe the exception that leaves the call);
\* caught is the class of the exception the outer catch received; counter is
\* the outcome counter the call incremented; stages lists the stages invoked.
\* The catch of lines 205-220: a ParserError is thrown again, anything else
\* is wrapped in a ParserError of type unexpected_error.
Thrown(caught, errorType, stages, raisedIn) ==
  [outcome |-> "threw", value |-> JNull, errorClass |-> "ParserError",
   errorType |-> IF caught = "ParserError" THEN errorType ELSE "unexpected_error",
   caught |-> caught, raisedIn |-> raisedIn, counter |-> "failureCount",
   usedFallback |-> FALSE, via |-> "none", stages |-> stages]

\* lines 185-203: the counters and the return value after JSON.parse
parseRepaired(fault, validationResult, stages, parsedResponse) ==
  IF fault = "JSON.parse" \/ ~parsedResponse.ok
  THEN Thrown("ParserError", "json_syntax_error", stages,
              IF fault = "JSON.parse" THEN "JSON.parse" ELSE "none")
  ELSE [outcome |-> "returned", value |-> parsedResponse.val,
        errorClass |-> "none", errorType |-> "none", caught |-> "none",
        raisedIn |-> "none",
        counter |-> IF validationResult.usedFallback
                    THEN "fallbackSuccessCount" ELSE "successCount",
        usedFallback |-> validationResult.usedFallback,
        via |-> validationResult.via, stages |-> stages]

\* lines 176-203: what follows validateAndRepair
afterRepair(fault, validationResult) ==
  LET stages == <<"cleanResponse">> \o validationResult.stages IN
  IF validationResult.raised
  THEN Thrown("Error", "none", stages, validationResult.raisedIn)
  ELSE IF ~validationResult.isValid
  THEN Thrown("ParserError",
              fromValidationResult(validationResult.validationResult),
              stages, validationResult.raisedIn)
  ELSE parseRepaired(fault, validationResult, Append(stages, "JSON.parse"),
                     JSONParse(validationResult.response))

\* cleanAndParseResponse without response.trim() === '' in its first test
cleanAndParseResponseUntrimmed(response, fault) ==
  IF response = <<>>
  THEN Thrown("ParserError", "empty_response", <<>>, "none")
  ELSE IF fault = "cleanResponse"
  THEN Thrown("Error", "none", <<"cleanResponse">>, "cleanResponse")
  ELSE afterRepair(fault, validateAndRepair(cleanResponse(response), fault))

cleanAndParseResponse(response, fault) ==
  IF trim(response) = <<>>
  THEN Thrown("ParserError", "empty_response", <<>>, "none")
  ELSE IF fault = "cleanResponse"
  THEN Thrown("Error", "none", <<"cleanResponse">>, "cleanResponse")
  ELSE afterRepair(fault, validateAndRepair(cleanResponse(response), fault))

\* ------------------------------------------------------------ the responses
MaxLen == 2
MaxCalls == 2
MaxPasses == 2

Alphabet == {LB, RB, Q, SP, CM, "a"}

\* every text of at most n characters of the alphabet
TextsUpTo(n) == UNION {[1..k -> Alphabet] : k \in 0..n}

quoted(cs) == <<Q>> \o cs \o <<Q>>

\* a change object as the model is asked to write it, q the quote put
\* around the property names (<<>> for bare names)
changeObject(original, replacement, reason, q) ==
  <<LC>> \o q \o <<"original">> \o q \o <<CL>> \o original \o <<CM>>
         \o q \o <<"replacement">> \o q \o <<CL>> \o replacement \o <<CM>>
         \o q \o <<"reason">> \o q \o <<CL>> \o reason \o <<RC>>

typo == changeObject(quoted(<<"a">>), quoted(<<"n">>), quoted(<<"a">>), <<Q>>)
bareTypo == changeObject(quoted(<<"a">>), quoted(<<"n">>), quoted(<<"a">>), <<>>)

\* the scenarios of the specification and the shapes of the test suite
ScenarioResponses ==
  { <<LB>> \o quoted(<<"a", SP>>) \o <<CM, SP>> \o typo \o <<CM, SP>>
         \o quoted(<<SP, "a">>) \o <<RB>>,
    <<LB, SP>> \o quoted(<<"a">>) \o <<CM, SP>> \o bareTypo \o <<SP, RB>>,
    <<LB>> \o typo \o <<SP>> \o quoted(<<"a">>) \o <<SP, RB>>,
    <<"a", SP>> \o typo \o <<SP, "a">>,
    <<NL, SP>>,
    <<LB, NL>> \o quoted(<<"a">>) \o <<CM, NL>> \o typo \o <<NL>>,
    <<LB>> \o quoted(<<"a">>) \o <<CM>> \o typo \o <<CM, NL, RB>>,
    <<LB>> \o typo \o <<NL>> \o typo \o <<RB>>,
    typo,
    typo \o <<CM>> \o quoted(<<"a">>) \o <<RB>>,
    <<LB>> \o changeObject(quoted(<<>>), quoted(<<"n">>), quoted(<<"a">>), <<Q>>) \o <<RB>>,
    <<LB>> \o changeObject(<<"1">>, quoted(<<"n">>), quoted(<<"a">>), <<Q>>) \o <<RB>>,
    <<LB>> \o changeObject(<<"null">>, quoted(<<"n">>), quoted(<<"a">>), <<Q>>) \o <<RB>>,
    <<LB>> \o typo \o <<CM>> \o <<Q, "a">> \o <<RB>>,
    <<LB>> \o quoted(<<"a">>) \o <<CM, LC>> \o quoted(<<"original">>) \o <<CL>>
         \o quoted(<<"a">>) \o <<RB>>,
    <<LB, "null", RB>>, <<LB, "1", RB>>, <<LB, LB, RB, RB>>, <<LB, LC, RC, RB>>,
    <<LC, RC>>, <<LB, CM, RB>>, <<LB, SP, RB>>, <<LB, LB, "a", RB>>,
    <<FENCE, TAG, NL>> \o <<LB>> \o quoted(<<"a", EMDASH, "a">>) \o <<RB, NL, FENCE>> }

\* a change object with a fourth member
extraField ==
  SubSeq(typo, 1, Len(typo) - 1) \o <<CM>> \o quoted(<<"a">>) \o <<CL>>
    \o quoted(<<"a">>) \o <<RC>>

\* raw text with a backslash, a quote, a bracket or a control character in
\* it, a change object in prose, a text neither repair nor the fragments
\* recover, typographic characters, segments of other shapes
EdgeResponses ==
  { <<"a", BS>>, <<BS, Q>>, <<"a", Q, "a">>, <<"a", RB, LB>>, <<DEL>>,
    <<"a", SP>> \o typo, typo \o <<SP, "a">>,
    <<LB, "original", CL, RB>>,
    <<LDQUO, "a", RDQUO>>, <<LSQUO, "a", RSQUO>>,
    <<LB>> \o quoted(<<"a", ELLIPSIS, ZWSP>>) \o <<RB>>,
    <<LB>> \o quoted(<<"a">>) \o <<CM, "null", RB>>,
    <<LB>> \o quoted(<<"a">>) \o <<CM, LB>> \o quoted(<<"a">>) \o <<RB, RB>>,
    <<LB>> \o extraField \o <<RB>>,
    <<LB, "1", CM>> \o extraField \o <<RB>> }

Responses == TextsUpTo(MaxLen) \cup ScenarioResponses \cup EdgeResponses

Faults == Stages \cup {"none"}

\* the responses during which a stage is made to raise
RaisingResponses == ScenarioResponses \cup TextsUpTo(1)

\* ------------------------------------------------------- segment sequences
\* the characters of the strings of a segment sequence
StringChars == {"a", SP, Q, BS, NL, LB, CM, EMDASH, ENDASH, DEL}

Strings == {<<c>> : c \in StringChars} \cup {<<"a", SP>>, <<SP, "a">>}

TextSegment(cs) == JStr(cs)

ChangeSegment(original, replacement, reason) ==
  JObj(<< [k |-> <<"original">>, val |-> JStr(original)],
          [k |-> <<"replacement">>, val |-> JStr(replacement)],
          [k |-> <<"reason">>, val |-> JStr(reason)] >>)

\* the segments the longer sequences are made of
PlainSegments ==
  { TextSegment(<<"a">>), TextSegment(<<SP, "a">>),
    ChangeSegment(<<"a">>, <<"n">>, <<"a">>) }

\* non-empty sequences of text segments that are not empty and of change
\* segments with three non-empty string fields
SegmentSequences ==
  { << TextSegment(cs) >> : cs \in Strings }
  \cup { << ChangeSegment(cs, <<"n">>, <<"a">>) >> : cs \in Strings }
  \cup { << ChangeSegment(<<"a">>, cs, cs) >> : cs \in Strings }
  \cup { <<a, b>> : a \in PlainSegments, b \in PlainSegments }
  \cup { <<a, b, c>> : a \in PlainSegments, b \in PlainSegments, c \in PlainSegments }

\* the recoverable defects of the test suite
Defects == {"missingOpeningBracket", "missingClosingBracket", "missingCommas",
            "unquotedPropertyNames", "extraTrailingComma"}

\* JSON.stringify of the elements with the comma after element missing left out
RECURSIVE JoinWithout(_, _, _)
JoinWithout(es, k, missing) ==
  IF k > Len(es) THEN <<>>
  ELSE JSONStringify(es[k]) \o
       (IF k = Len(es) THEN <<>>
        ELSE IF k = missing THEN <<SP>> ELSE <<CM>>) \o
       JoinWithout(es, k + 1, missing)

\* "prop": written prop:
UnquoteProperties(s) ==
  LET match(t, i) ==
        IF /\ i + 3 <= Len(t) /\ t[i] = Q /\ t[i + 2] = Q /\ t[i + 3] = CL
           /\ \E n \in 1..3 : t[i + 1] = PropertyNames[n]
        THEN Match(i + 3, <<t[i + 1], CL>>)
        ELSE NoMatch
  IN ReplaceAll(match, s)

\* the wire text of the sequence with one defect, k the comma left out
Damaged(segments, text, kind, k) ==
  CASE kind = "missingOpeningBracket" -> Tail(text)
    [] kind = "missingClosingBracket" -> SubSeq(text, 1, Len(text) - 1)
    [] kind = "missingCommas" -> <<LB>> \o JoinWithout(segments, 1, k) \o <<RB>>
    [] kind = "unquotedPropertyNames" -> UnquoteProperties(text)
    [] kind = "extraTrailingComma" -> SubSeq(text, 1, Len(text) - 1) \o <<CM, RB>>

\* ------------------------------------------------------------------- state
\* parserTelemetry: the counters of the module; call: the last call of
\* cleanAndParseResponse and what came of it; sequence, wire, defect: a segment
\* sequence, its text on the wire and the defect the text was given; passes:
\* how many times cleanResponse was applied to the text on the wire;
\* callers: the callers of cleanAndParseResponse on the event loop; snapshot:
\* what getParserTelemetry last returned; request: the generateStyleGuide
\* request under way
VARIABLES parserTelemetry, call, sequence, wire, defect, passes,
          callers, snapshot, request

vars == <<parserTelemetry, call, sequence, wire, defect, passes,
          callers, snapshot, request>>

\* the callers, the snapshot and the request, which the parser's own steps
\* leave alone
others == <<callers, snapshot, request>>

OutcomeCounters == {"successCount", "fallbackSuccessCount", "failureCount"}

NoCall ==
  [response |-> <<>>, fault |-> "none", outcome |-> "none", value |-> JNull,
   errorClass |-> "none", errorType |-> "none", caught |-> "none",
   raisedIn |-> "none", counter |-> "none", usedFallback |-> FALSE,
   via |-> "none", stages |-> <<>>]

\* a caller that has not called yet
IdleCaller == [pc |-> "idle", response |-> <<>>, outcome |-> "none", value |-> JNull]

\* the callers on the event loop
Callers == 1..MaxCalls

NoSnapshot == [taken |-> FALSE]

\* withRetry(fn, maxRetries = 3, baseDelay = 1000)
MaxRetries == 3

NoRequest ==
  [state |-> "idle", attempt |-> 0, fetchCalls |-> 0, errors |-> 0,
   warnings |-> 0, codes |-> <<>>, kinds |-> <<>>, thrown |-> 0]

InitParser ==
  /\ parserTelemetry = [totalAttempts |-> 0, successCount |-> 0,
                        fallbackSuccessCount |-> 0, failureCount |-> 0]
  /\ call = NoCall
  /\ callers = [c \in Callers |-> IdleCaller]
  /\ snapshot = NoSnapshot
  /\ request = NoRequest

Init ==
  /\ InitParser
  /\ sequence = <<>>
  /\ wire = <<>>
  /\ defect = "none"
  /\ passes = 0

\* RecordOutcome with a catch block that forgets failureCount++
RecordOutcomeUnlessFailure(telemetry, counter) ==
  IF counter = "failureCount"
  THEN [telemetry EXCEPT !.totalAttempts = @ + 1]
  ELSE [telemetry EXCEPT !.totalAttempts = @ + 1, ![counter] = @ + 1]

\* RecordOutcome with totalAttempts++ both on entry and on the way out
RecordOutcomeTwice(telemetry, counter) ==
  [telemetry EXCEPT !.totalAttempts = @ + 2, ![counter] = @ + 1]

\* the increments of cleanAndParseResponse: totalAttempts on entry, one
\* outcome counter on the way out
RecordOutcome(telemetry, counter) ==
  [telemetry EXCEPT !.totalAttempts = @ + 1, ![counter] = @ + 1]

\* the calls made on the responses, each worked out once: @@ has TLC
\* tabulate the function
Calls == (Responses \X {"none"}) \cup (RaisingResponses \X Stages)

Run == <<>> @@ [x \in Calls |-> cleanAndParseResponse(x[1], x[2])]

\* one call of cleanAndParseResponse, o what the call does
Called(response, fault, o) ==
  /\ parserTelemetry.totalAttempts < MaxCalls
  /\ parserTelemetry' = RecordOutcome(parserTelemetry, o.counter)
  /\ call' = [response |-> response, fault |-> fault] @@ o
  /\ UNCHANGED <<sequence, wire, defect, passes>>
  /\ UNCHANGED others

Parse(response, fault) == Called(response, fault, Run[<<response, fault>>])

\* a call during which nothing unanticipated happens
ParseCall == \E response \in Responses : Parse(response, "none")

\* a call during which a stage raises an exception of another type
ParseRaising ==
  \E response \in RaisingResponses, stage \in Stages : Parse(response, stage)

Next == ParseCall

Spec == Init /\ [][Next]_vars

NextFault == ParseCall \/ ParseRaising

SpecFault == Init /\ [][NextFault]_vars

\* ----------------------------------------------------- the wire round trip
InitWire ==
  /\ InitParser
  /\ sequence \in SegmentSequences
  /\ wire = <<>>
  /\ defect = "none"
  /\ passes = 0

\* JSON.stringify(S)
Serialize ==
  /\ wire = <<>>
  /\ wire' = JSONStringify(JArr(sequence))
  /\ UNCHANGED <<parserTelemetry, call, sequence, defect, passes>>
  /\ UNCHANGED others

\* the text picks up one defect on its way
Damage ==
  /\ wire # <<>> /\ defect = "none" /\ call = NoCall
  /\ \E kind \in Defects, k \in 1..Len(sequence) :
       /\ kind = "missingCommas" => k < Len(sequence)
       /\ kind # "missingCommas" => k = 1
       /\ Damaged(sequence, wire, kind, k) # wire
       /\ wire' = Damaged(sequence, wire, kind, k)
       /\ defect' = kind
  /\ UNCHANGED <<parserTelemetry, call, sequence, passes>>
  /\ UNCHANGED others

ParseWire ==
  /\ wire # <<>>
  /\ Called(wire, "none", cleanAndParseResponse(wire, "none"))

NextWire == Serialize \/ Damage \/ ParseWire

SpecWire == InitWire /\ [][NextWire]_vars

\* --------------------------------------------------- repeated normalization
InitClean ==
  /\ InitParser
  /\ sequence = <<>>
  /\ wire \in Responses
  /\ defect = "none"
  /\ passes = 0

\* one more pass of cleanResponse over the text
Clean ==
  /\ passes < MaxPasses
  /\ wire' = cleanResponse(wire)
  /\ passes' = passes + 1
  /\ UNCHANGED <<parserTelemetry, call, sequence, defect>>
  /\ UNCHANGED others

NextClean == Clean

SpecClean == InitClean /\ [][NextClean]_vars

\* ------------------------------------------------------------ the validator
\* the characters the bracket balancing loop tells apart
StructureChars == {LB, RB, LC, RC, Q, BS}

\* the texts between an opening and a closing bracket
BracketedTexts ==
  { <<LB>> \o t \o <<RB>> :
      t \in UNION {[1..k -> StructureChars] : k \in 0..MaxLen} }

ValidatorInputs == Responses \cup BracketedTexts

InitValidate ==
  /\ InitParser
  /\ sequence = <<>>
  /\ wire \in ValidatorInputs
  /\ defect = "none"
  /\ passes = 0

\* validateJsonArrayStructure and validateResponse applied to the text
Validate ==
  /\ call = NoCall
  /\ call' = [response |-> wire, outcome |-> "validated",
              structure |-> validateJsonArrayStructure(wire),
              validation |-> validateResponse(wire)]
  /\ UNCHANGED <<parserTelemetry, sequence, wire, defect, passes>>
  /\ UNCHANGED others

NextValidate == Validate

SpecValidate == InitValidate /\ [][NextValidate]_vars

\* ------------------------------------------------- the recovery functions
\* strings with text in them that the repair expressions match
RepairStrings == { <<RC, LC>>, <<Q, LC>>, <<CM, RB>>, <<CM, "original", CL>> }

\* change objects with a brace in a field value
BraceObjects ==
  { ChangeSegment(<<LC>>, <<"n">>, <<"a">>), ChangeSegment(<<"a">>, <<RC>>, <<"a">>),
    ChangeSegment(<<"a">>, <<LC, "n", RC>>, <<"a">>) }

\* valid segment arrays
ValidArrays ==
  SegmentSequences \cup { << TextSegment(cs) >> : cs \in RepairStrings }
    \cup { <<TextSegment(<<"a">>), o>> : o \in BraceObjects }

\* texts the recovery functions are handed as they are: objects with a number
\* or an object in a field, a string with a dash or an escaped quote in it
RecoveryTexts ==
  Responses \cup BracketedTexts \cup
  { changeObject(<<"1">>, quoted(<<"n">>), quoted(<<"a">>), <<Q>>),
    changeObject(quoted(<<"a">>), <<LC, RC>>, quoted(<<"a">>), <<Q>>),
    quoted(<<EMDASH>>), quoted(<<"a", DEL>>), quoted(<<SP>>),
    <<LB>> \o quoted(<<"a", BS, Q, "a">>) \o <<RB>>,
    <<"a", SP>> \o typo \o <<SP>> \o quoted(<<"a">>) }

\* the text is free text, a valid array with one defect, a valid array, or a
\* change object on its own; defect says which
InitRecovery ==
  /\ InitParser
  /\ passes = 0
  /\ \/ /\ sequence = <<>> /\ defect = "none"
        /\ wire \in RecoveryTexts
     \/ /\ sequence \in SegmentSequences
        /\ \E kind \in Defects, k \in 1..Len(sequence) :
             /\ kind = "missingCommas" => k < Len(sequence)
             /\ kind # "missingCommas" => k = 1
             /\ Damaged(sequence, JSONStringify(JArr(sequence)), kind, k)
                  # JSONStringify(JArr(sequence))
             /\ defect = kind
             /\ wire = Damaged(sequence, JSONStringify(JArr(sequence)), kind, k)
     \/ /\ sequence \in ValidArrays /\ defect = "valid"
        /\ wire = JSONStringify(JArr(sequence))
     \/ /\ \E o \in BraceObjects : sequence = <<o>> /\ wire = JSONStringify(o)
        /\ defect = "object"

\* what extractValidFragments, attemptJsonRepair and evaluateRecoveryPotential
\* make of the text, and what JSON.parse and validateResponse make of the
\* repaired text
Recovering(text, repaired) ==
  [response |-> text, outcome |-> "recovered",
   fragments |-> extractValidFragments(text),
   repaired |-> repaired,
   parsed |-> JSONParse(repaired),
   validation |-> validateResponse(repaired),
   prognosis |-> evaluateRecoveryPotential(text)]

Recover ==
  /\ call = NoCall /\ defect # "fragment"
  /\ call' = Recovering(wire, attemptJsonRepair(wire))
  /\ UNCHANGED <<parserTelemetry, sequence, wire, defect, passes>>
  /\ UNCHANGED others

\* one of the fragments, to be presented as a document of its own
PickFragment ==
  /\ call.outcome = "recovered"
  /\ \E i \in 1..Len(call.fragments) : sequence' = << call.fragments[i] >>
  /\ wire' = <<>>
  /\ defect' = "fragment"
  /\ call' = NoCall
  /\ UNCHANGED <<parserTelemetry, passes>>
  /\ UNCHANGED others

\* JSON.stringify([s])
PresentFragment == defect = "fragment" /\ Serialize

ParseFragment == defect = "fragment" /\ ParseWire

NextRecovery == Recover \/ PickFragment \/ PresentFragment \/ ParseFragment

SpecRecovery == InitRecovery /\ [][NextRecovery]_vars

\* ------------------------------------------------------ generateStyleGuide
\* what one fetch comes to: a response that is ok and whose body reads, a
\* response with an error status, a rejected fetch (no response), a response
\* that is ok and whose body does not read
Statuses == {400, 401, 408, 429, 500, 503}

FetchOutcomes ==
  { [kind |-> "ok", status |-> 200], [kind |-> "network", status |-> 0],
    [kind |-> "body", status |-> 200] }
  \cup { [kind |-> "http", status |-> st] : st \in Statuses }

\* AnthropicError.fromApiError: response?.status || 500; only the error
\* thrown at line 32 is made with the response
ErrorCode(outcome) == IF outcome.kind = "http" THEN outcome.status ELSE 500

\* the calls of handleApiError, each of which logs through console.error:
\* the error thrown at line 32 is thrown inside the try block, so the catch
\* of line 37 hands it to handleApiError again
ErrorLogs(outcome) == IF outcome.kind = "http" THEN 2 ELSE 1

retryableCodes == {408, 429, 500, 502, 503, 504}

\* isRetryableError that takes 400 for a retryable code
isRetryableErrorOrBadRequest(code) == code \in retryableCodes \cup {400}

isRetryableError(code) == code \in retryableCodes

\* generateStyleGuide(prompt): withRetry enters its loop with attempt = 0
StartRequest ==
  /\ request.state = "idle"
  /\ request' = [request EXCEPT !.state = "running"]
  /\ UNCHANGED <<parserTelemetry, call, sequence, wire, defect, passes,
                 callers, snapshot>>

\* lines 41-52 of withRetry: the error is thrown when it is not retryable or
\* the attempt was the last one; otherwise a warning is logged and the delay
\* awaited
Failed(req, code) ==
  IF ~isRetryableError(code) \/ req.attempt = MaxRetries - 1
  THEN [req EXCEPT !.state = "threw", !.thrown = code]
  ELSE [req EXCEPT !.state = "waiting", !.warnings = @ + 1]

\* one iteration of the loop: fn() and what withRetry does with its result
Attempt ==
  /\ request.state = "running"
  /\ \E outcome \in FetchOutcomes :
       request' =
         IF outcome.kind = "ok"
         THEN [request EXCEPT !.state = "returned", !.fetchCalls = @ + 1]
         ELSE Failed([request EXCEPT !.fetchCalls = @ + 1,
                                     !.errors = @ + ErrorLogs(outcome),
                                     !.codes = Append(@, ErrorCode(outcome)),
                                     !.kinds = Append(@, outcome.kind)],
                     ErrorCode(outcome))
  /\ UNCHANGED <<parserTelemetry, call, sequence, wire, defect, passes,
                 callers, snapshot>>

\* the delay is over: attempt++ and the next iteration
Resume ==
  /\ request.state = "waiting"
  /\ request' = [request EXCEPT !.state = "running", !.attempt = @ + 1]
  /\ UNCHANGED <<parserTelemetry, call, sequence, wire, defect, passes,
                 callers, snapshot>>

NextRetry == StartRequest \/ Attempt \/ Resume

SpecRetry == Init /\ [][NextRetry]_vars

\* ------------------------------------------------------ getParserTelemetry
\* a percentage in hundredths, or NaN
NaN == [nan |-> TRUE, hundredths |-> 0]

\* (n / d * 100).toFixed(2): 0 / 0 is NaN and NaN.toFixed(2) is "NaN";
\* toFixed rounds to the nearest hundredth
ToFixed2(n, d) ==
  IF d = 0 THEN NaN
  ELSE [nan |-> FALSE, hundredths |-> (2 * 10000 * n + d) \div (2 * d)]

\* only successRate is guarded against totalAttempts = 0
getParserTelemetry(telemetry) ==
  [taken |-> TRUE,
   totalAttempts |-> telemetry.totalAttempts,
   successCount |-> telemetry.successCount,
   fallbackSuccessCount |-> telemetry.fallbackSuccessCount,
   failureCount |-> telemetry.failureCount,
   successRate |->
     IF telemetry.totalAttempts > 0
     THEN ToFixed2(telemetry.successCount + telemetry.fallbackSuccessCount,
                   telemetry.totalAttempts)
     ELSE ToFixed2(0, 1),
   primarySuccessRate |->
     ToFixed2(telemetry.successCount, telemetry.totalAttempts),
   fallbackSuccessRate |->
     ToFixed2(telemetry.fallbackSuccessCount, telemetry.totalAttempts)]

\* a call of getParserTelemetry, its result kept
GetTelemetry ==
  /\ snapshot' = getParserTelemetry(parserTelemetry)
  /\ UNCHANGED <<parserTelemetry, call, sequence, wire, defect, passes,
                 callers, request>>

NextTelemetry == ParseCall \/ GetTelemetry

SpecTelemetry == Init /\ [][NextTelemetry]_vars

\* ------------------------------------------------- callers on the event loop
\* what the callers pass
CallerResponses == ScenarioResponses

\* a caller is between the first and the last statement of
\* cleanAndParseResponse
Busy == \E c \in Callers : callers[c].pc = "entered"

\* line 160: parserTelemetry.totalAttempts++
EnterCall(telemetry) == [telemetry EXCEPT !.totalAttempts = @ + 1]

\* LeaveCall writing the counter from a value read when the module loaded
LeaveCallStale(telemetry, counter) == [telemetry EXCEPT ![counter] = 1]

\* the increment of the outcome counter on the way out
LeaveCall(telemetry, counter) == [telemetry EXCEPT ![counter] = @ + 1]

\* a caller calls cleanAndParseResponse: the function is synchronous and the
\* event loop runs one callback at a time, so no caller enters while another
\* is inside
Enter(c) ==
  /\ callers[c].pc = "idle"
  /\ ~Busy
  /\ \E response \in CallerResponses :
       callers' = [callers EXCEPT ![c] = [@ EXCEPT !.pc = "entered",
                                                   !.response = response]]
  /\ parserTelemetry' = EnterCall(parserTelemetry)
  /\ UNCHANGED <<call, sequence, wire, defect, passes, snapshot, request>>

\* the call returns or throws
Leave(c, o) ==
  /\ callers[c].pc = "entered"
  /\ callers' = [callers EXCEPT ![c] = [@ EXCEPT !.pc = "done",
                                                 !.outcome = o.outcome,
                                                 !.value = o.value]]
  /\ parserTelemetry' = LeaveCall(parserTelemetry, o.counter)
  /\ UNCHANGED <<call, sequence, wire, defect, passes, snapshot, request>>

EnterCaller == \E c \in Callers : Enter(c)

LeaveCaller == \E c \in Callers : Leave(c, Run[<<callers[c].response, "none">>])

NextCallers == EnterCaller \/ LeaveCaller

SpecCallers == Init /\ [][NextCallers]_vars

\* ------------------------------------------------------------- properties
\* C1: after any sequence of calls, whether each returned or threw,
\* totalAttempts equals successCount + fallbackSuccessCount + failureCount
TelemetryBalanced ==
  parserTelemetry.totalAttempts =
    parserTelemetry.successCount + parserTelemetry.fallbackSuccessCount
      + parserTelemetry.failureCount

TelemetryBalancedWitness ==
  /\ parserTelemetry.totalAttempts >= 2
  /\ parserTelemetry.failureCount >= 1
  /\ parserTelemetry.fallbackSuccessCount >= 1

\* C2: every call adds exactly 1 to totalAttempts and exactly 1 to exactly one
\* of the three outcome counters, the other two staying as they were; the
\* counter that moves is failureCount if and only if the call throws
CountersMoveOnce ==
  [][ /\ parserTelemetry'.totalAttempts = parserTelemetry.totalAttempts + 1
      /\ \E c \in OutcomeCounters :
           /\ parserTelemetry'[c] = parserTelemetry[c] + 1
           /\ \A d \in OutcomeCounters \ {c} : parserTelemetry'[d] = parserTelemetry[d]
      /\ (parserTelemetry'.failureCount = parserTelemetry.failureCount + 1)
           <=> (call'.outcome = "threw") ]_vars

CountersMoveOnceWitness ==
  /\ call.outcome = "threw"
  /\ call.caught = "Error"
  /\ parserTelemetry.failureCount = 1
  /\ parserTelemetry.successCount = 1

\* the stages whose unanticipated exceptions reach the outer catch
WrappingStages == {"cleanResponse", "validateResponse", "evaluateRecoveryPotential"}

\* C3, as the code has it: every exception that leaves a call is a
\* ParserError and a call either returns an array or throws, never both; an
\* exception of another type raised in cleanResponse, validateResponse or
\* evaluateRecoveryPotential is wrapped as unexpected_error, one raised in
\* createFallbackFromFragments is swallowed and the call throws the error of
\* the validation, one raised by the last JSON.parse leaves as
\* json_syntax_error
ExceptionsAreParserErrors ==
  /\ call.outcome = "threw" =>
       /\ call.errorClass = "ParserError"
       /\ call.value = JNull
  /\ call.outcome = "returned" =>
       /\ call.errorClass = "none"
       /\ call.value.t = "array"
  /\ call.raisedIn \in WrappingStages =>
       /\ call.outcome = "threw"
       /\ call.errorType = "unexpected_error"
  /\ call.raisedIn = "createFallbackFromFragments" =>
       /\ call.outcome = "threw"
       /\ call.errorType = fromValidationResult(validateResponse(cleanResponse(call.response)))
  /\ call.raisedIn = "JSON.parse" =>
       /\ call.outcome = "threw"
       /\ call.errorType = "json_syntax_error"

ExceptionsAreParserErrorsWitness ==
  /\ call.raisedIn = "createFallbackFromFragments"
  /\ call.outcome = "threw"
  /\ call.errorType = "invalid_change_object"

\* C3 as claimed: an exception of another type raised inside any stage leaves
\* the call as a ParserError of type unexpected_error
UnexpectedErrorsWrapped ==
  call.raisedIn # "none" =>
    /\ call.outcome = "threw"
    /\ call.errorClass = "ParserError"
    /\ call.errorType = "unexpected_error"

\* the twelve values of the taxonomy
Taxonomy ==
  {"empty_response", "missing_opening_bracket", "missing_closing_bracket",
   "unbalanced_brackets", "unclosed_string", "invalid_change_object",
   "invalid_field_type", "not_array", "invalid_segment_type",
   "json_syntax_error", "validation_failed", "unexpected_error"}

\* C4, as the code has it: the errorType of a thrown error is one of the
\* twelve values of the taxonomy or one of empty_array and parse_error, which
\* validateResponse reports as well
ErrorTypeKnown ==
  call.outcome = "threw" =>
    call.errorType \in Taxonomy \cup {"empty_array", "parse_error"}

ErrorTypeKnownWitness ==
  /\ call.outcome = "threw"
  /\ call.response = <<LB, RB>>
  /\ call.errorType = "empty_array"

\* C4 as claimed: the errorType of a thrown error is one of the twelve values
ErrorTypeInTaxonomy == call.outcome = "threw" => call.errorType \in Taxonomy

\* C5: a call on an empty or whitespace-only input throws a ParserError of
\* type empty_response, invokes no stage, and adds 1 to totalAttempts and 1 to
\* failureCount
BlankResponseRejected ==
  [][ trim(call'.response) = <<>> =>
        /\ call'.outcome = "threw"
        /\ call'.errorClass = "ParserError"
        /\ call'.errorType = "empty_response"
        /\ call'.stages = <<>>
        /\ parserTelemetry'.totalAttempts = parserTelemetry.totalAttempts + 1
        /\ parserTelemetry'.failureCount = parserTelemetry.failureCount + 1 ]_vars

BlankResponseRejectedWitness ==
  /\ call.response = <<NL, SP>>
  /\ call.errorType = "empty_response"
  /\ parserTelemetry.failureCount = 2

\* a string, or an object whose three fields are non-empty strings
ValidSegment(segment) ==
  \/ segment.t = "string"
  \/ /\ segment.t = "object"
     /\ \A n \in 1..3 :
          /\ Property(segment, PropertyNames[n]).t = "string"
          /\ Property(segment, PropertyNames[n]).v # <<>>

\* C6: every element of every returned sequence is a string or an object
\* whose original, replacement and reason are non-empty strings
ReturnedSegmentsValid ==
  call.outcome = "returned" =>
    \A i \in 1..Len(call.value.v) : ValidSegment(call.value.v[i])

\* C7: a call that returns returns an array of at least one element, and a
\* call on an input whose parsed form is the empty array throws
NeverReturnsEmpty ==
  /\ call.outcome = "returned" =>
       /\ call.value.t = "array"
       /\ Len(call.value.v) >= 1
  /\ (call.outcome # "none" /\ JSONParse(call.response) = [ok |-> TRUE, val |-> JArr(<<>>)])
       => call.outcome = "threw"

NeverReturnsEmptyWitness ==
  /\ call.response = <<LB, SP, RB>>
  /\ call.outcome = "threw"
  /\ call.stages = <<"cleanResponse", "validateResponse", "evaluateRecoveryPotential">>

\* the characters cleanResponse rewrites wherever they stand
Rewritten == {EMDASH, ENDASH, DEL}

StringsOf(segment) ==
  IF segment.t = "string" THEN {segment.v}
  ELSE {segment.v[n].val.v : n \in 1..Len(segment.v)}

\* no string of the sequence holds a character that cleanResponse rewrites
PlainSequence(segments) ==
  \A i \in 1..Len(segments) : \A cs \in StringsOf(segments[i]) :
    \A n \in 1..Len(cs) : cs[n] \notin Rewritten

\* the call was made on the text as it was serialized
ParsedIntact == call.outcome # "none" /\ defect = "none"

\* C8, as the code has it: a sequence none of whose strings holds an em dash,
\* an en dash or a character of U+007F..U+009F comes back from
\* cleanAndParseResponse(JSON.stringify(S)) equal to S
RoundTripPlain ==
  (ParsedIntact /\ PlainSequence(sequence)) =>
    /\ call.outcome = "returned"
    /\ call.value = JArr(sequence)

RoundTripPlainWitness ==
  /\ ParsedIntact
  /\ sequence = << ChangeSegment(<<"a">>, <<Q>>, <<Q>>) >>
  /\ call.value = JArr(sequence)

\* C8 as claimed: every such sequence comes back equal to S
RoundTrip ==
  ParsedIntact =>
    /\ call.outcome = "returned"
    /\ call.value = JArr(sequence)

\* C9: a second pass of cleanResponse, and any later one, changes nothing
CleanIdempotent == [][ passes >= 1 => wire' = wire ]_vars

\* C10: a call on the text of a sequence with one recoverable defect returns
\* the sequence of the text without the defect
DefectRecovered ==
  (call.outcome # "none" /\ defect # "none" /\ PlainSequence(sequence)) =>
    /\ call.outcome = "returned"
    /\ call.value = JArr(sequence)

\* the text cleanResponse tests and repairs: trimmed, of line 49
Normalized(response) ==
  trim(NormalizeChars(StripFence(StripFence(response, <<FENCE, TAG>>), <<FENCE>>)))

\* cleanResponse took the text through the rewrites of lines 66-100
NeededRepair(response) ==
  /\ startsWith(Normalized(response), LB) \/ startsWith(Normalized(response), LC)
  /\ ~JSONParse(Normalized(response)).ok

\* the inputs of Scenario 2 (bare property names) and Scenario 4 (a missing
\* comma)
Scenario2 == <<LB, SP>> \o quoted(<<"a">>) \o <<CM, SP>> \o bareTypo \o <<SP, RB>>
Scenario4 == <<LB>> \o typo \o <<SP>> \o quoted(<<"a">>) \o <<SP, RB>>

\* C11: a call whose input needed a repair rewrite counts as a fallback: on
\* the inputs of Scenario 2 and Scenario 4 it returns two elements and
\* increments fallbackSuccessCount, and successCount moves only when no repair
\* rewrite was applied
RepairCountedAsFallback ==
  /\ call.response \in {Scenario2, Scenario4} =>
       /\ call.outcome = "returned"
       /\ Len(call.value.v) = 2
       /\ call.counter = "fallbackSuccessCount"
  /\ call.counter = "successCount" => ~NeededRepair(call.response)

\* the text is raw text to cleanResponse: it starts with neither [ nor {
RawText(response) ==
  /\ trim(response) # <<>>
  /\ ~startsWith(trim(response), LB) /\ ~startsWith(trim(response), LC)
  /\ ~startsWith(Normalized(response), LB) /\ ~startsWith(Normalized(response), LC)

\* C12: a call on raw text, whatever quotes, backslashes or brackets it holds,
\* returns exactly one text segment, and validation of the normalized text
\* decides it: no recovery stage runs
RawTextWrapped ==
  (call.outcome # "none" /\ RawText(call.response)) =>
    /\ call.outcome = "returned"
    /\ Len(call.value.v) = 1
    /\ call.value.v[1].t = "string"
    /\ call.stages = <<"cleanResponse", "validateResponse", "JSON.parse">>
    /\ call.counter = "successCount"

\* prose that does not parse around one well-formed change object, and no
\* outer array
EmbeddedChange ==
  { <<"a", SP>> \o typo \o <<SP, "a">>, <<"a", SP>> \o typo, typo \o <<SP, "a">> }

\* C13: a call on prose with one well-formed change object in it returns that
\* change segment alone, found by fragment extraction, and increments
\* fallbackSuccessCount
EmbeddedChangeExtracted ==
  call.response \in EmbeddedChange =>
    /\ call.outcome = "returned"
    /\ call.value = JArr(<< ChangeSegment(<<"a">>, <<"n">>, <<"a">>) >>)
    /\ call.counter = "fallbackSuccessCount"

\* the normalized text of the last call
Cleaned == cleanResponse(call.response)

\* the last call went past the empty-input test and its normalized text
\* failed validation
FailedValidation ==
  /\ call.outcome # "none"
  /\ trim(call.response) # <<>>
  /\ ~validateResponse(Cleaned).isValid

\* C14: when the normalized text fails validation the repair engine is tried
\* first, whatever the recoverability score, and a text that repair alone makes
\* valid is returned as a fallback success, also at a score below 50
RepairTriedFirst ==
  FailedValidation =>
    /\ \E n \in 1..Len(call.stages) : call.stages[n] = "createFallbackFromFragments"
    /\ validateResponse(attemptJsonRepair(Cleaned)).isValid =>
         /\ call.outcome = "returned"
         /\ call.counter = "fallbackSuccessCount"

\* C15: when validation fails, the repaired text does not parse and fragment
\* extraction finds nothing, the call throws a ParserError and increments
\* failureCount; it returns no sequence made of the raw text
UnrecoveredFails ==
  ( /\ FailedValidation
    /\ ~JSONParse(attemptJsonRepair(Cleaned)).ok
    /\ extractValidFragments(Cleaned) = <<>> ) =>
    /\ call.outcome = "threw"
    /\ call.errorClass = "ParserError"
    /\ call.counter = "failureCount"

\* C16: when the call ends in failure and JSON.parse refuses the repair
\* engine's text, the error thrown is of type json_syntax_error, not of the
\* type the validator reported
SyntaxErrorPreferred ==
  ( /\ FailedValidation
    /\ call.outcome = "threw"
    /\ ~JSONParse(attemptJsonRepair(Cleaned)).ok ) =>
    call.errorType = "json_syntax_error"

\* C17: the text cleanResponse returns for an input that is not empty starts
\* with [ and ends with ], a bare JSON object included
CleanedIsBracketed ==
  [][ wire # <<>> => (startsWith(wire', LB) /\ endsWith(wire', RB)) ]_vars

\* typographic quotes, dashes, the ellipsis glyph and the zero-width space
Typographic == {LDQUO, RDQUO, LSQUO, RSQUO, EMDASH, ENDASH, ELLIPSIS, ZWSP}

\* C18: the text cleanResponse returns holds no typographic quote, no em
\* dash, no en dash, no ellipsis glyph and no zero-width space
NoTypographyLeft ==
  passes >= 1 => \A i \in 1..Len(wire) : wire[i] \notin Typographic

\* one nesting depth over [ { (up) and ] } (down) outside string literals, a
\* backslash escaping the character after it: never below zero, zero at the end
DepthBalanced(s) ==
  LET step(t, st, i) ==
        IF ~st.ok THEN st
        ELSE IF st.escapeNext THEN [st EXCEPT !.escapeNext = FALSE]
        ELSE IF t[i] = BS THEN [st EXCEPT !.escapeNext = TRUE]
        ELSE IF t[i] = Q THEN [st EXCEPT !.inString = ~@]
        ELSE IF ~st.inString /\ t[i] \in {LB, LC} THEN [st EXCEPT !.depth = @ + 1]
        ELSE IF ~st.inString /\ t[i] \in {RB, RC}
          THEN IF st.depth = 0 THEN [st EXCEPT !.ok = FALSE]
               ELSE [st EXCEPT !.depth = @ - 1]
        ELSE st
      balanced(end) == end.ok /\ end.depth = 0
  IN balanced(FoldRange(step, s, 1, Len(s),
                        [depth |-> 0, inString |-> FALSE, escapeNext |-> FALSE,
                         ok |-> TRUE]))

\* C19: validateJsonArrayStructure finds a text that starts with [ and ends
\* with ] valid only if the depth counted over square brackets and curly
\* braces alike never goes below zero and ends at zero
BracesCounted ==
  ( /\ call.outcome = "validated"
    /\ startsWith(trim(call.response), LB) /\ endsWith(trim(call.response), RB)
    /\ call.structure.isValid ) =>
    DepthBalanced(trim(call.response))

\* a string, or an object of exactly the three fields, each a non-empty string
ExactSegment(segment) ==
  \/ segment.t = "string"
  \/ /\ segment.t = "object"
     /\ Len(segment.v) = 3
     /\ \A n \in 1..3 :
          /\ Property(segment, PropertyNames[n]).t = "string"
          /\ Property(segment, PropertyNames[n]).v # <<>>

\* C20: validateResponse finds a text valid only if it parses to an array
\* whose every element is a string or an object of exactly the three fields
\* original, replacement, reason, each a non-empty string
OnlyExactSegmentsValid ==
  (call.outcome = "validated" /\ call.validation.isValid) =>
    /\ JSONParse(trim(call.response)).ok
    /\ JSONParse(trim(call.response)).val.t = "array"
    /\ \A i \in 1..Len(JSONParse(trim(call.response)).val.v) :
         ExactSegment(JSONParse(trim(call.response)).val.v[i])

\* a string that is not blank after trimming, or an object whose three
\* fields are non-empty strings
FragmentSegment(fragment) ==
  \/ fragment.t = "string" /\ trim(fragment.v) # <<>>
  \/ /\ fragment.t = "object"
     /\ \A n \in 1..3 :
          /\ Property(fragment, PropertyNames[n]).t = "string"
          /\ Property(fragment, PropertyNames[n]).v # <<>>

\* C21: every element extractValidFragments returns is a string that is not
\* blank after trimming or an object whose original, replacement and reason
\* are non-empty strings
FragmentsAreSegments ==
  call.outcome = "recovered" =>
    \A i \in 1..Len(call.fragments) : FragmentSegment(call.fragments[i])

\* the fragment was presented as a document of its own and parsed
FragmentParsed == defect = "fragment" /\ call.outcome \in {"returned", "threw"}

UnescapedQuotes(s) ==
  LET step(t, st, i) ==
        IF st.escapeNext THEN [st EXCEPT !.escapeNext = FALSE]
        ELSE IF t[i] = BS THEN [st EXCEPT !.escapeNext = TRUE]
        ELSE IF t[i] = Q THEN [st EXCEPT !.count = @ + 1]
        ELSE st
  IN FoldRange(step, s, 1, Len(s), [count |-> 0, escapeNext |-> FALSE]).count

\* C23: evaluateRecoveryPotential lists unbalanced_quotes, and takes the 15
\* points, if and only if the number of double quotes that no backslash
\* escapes is odd
QuotePenaltyIffOdd ==
  call.outcome = "recovered" =>
    ( (\E n \in 1..Len(call.prognosis.identifiedIssues) :
         call.prognosis.identifiedIssues[n] = "unbalanced_quotes")
      <=> UnescapedQuotes(call.response) % 2 = 1 )

\* C24: on a valid segment array with bare property names, a missing opening
\* or closing bracket, a missing comma or a trailing comma,
\* JSON.parse(attemptJsonRepair(input)) succeeds and yields an array that
\* validateResponse accepts
DefectsRepaired ==
  (call.outcome = "recovered" /\ defect \in Defects) =>
    /\ call.parsed.ok
    /\ call.parsed.val.t = "array"
    /\ call.validation.isValid

\* C28: a brace inside a string literal of an object does not change the
\* nesting depth: from a well-formed change object with braces in its field
\* values extractValidFragments returns that object and nothing else
BracesInStringsIgnored ==
  (call.outcome = "recovered" /\ defect = "object") =>
    call.fragments = sequence

\* C29: attemptJsonRepair leaves a valid segment array as it is:
\* JSON.parse(attemptJsonRepair(d)) succeeds and equals JSON.parse(d)
RepairKeepsValidArrays ==
  (call.outcome = "recovered" /\ defect = "valid") =>
    /\ JSONParse(call.response).ok
    /\ call.parsed.ok
    /\ call.parsed.val = JSONParse(call.response).val

\* C25: withRetry calls the request function at least once and at most 3
\* times; it calls again only after failures with a retryable code (408, 429,
\* 500, 502, 503, 504); the first success is returned with no further call; a
\* failure with another code is thrown after that call; after 3 retryable
\* failures the last error is thrown; a rejected fetch counts as code 500
RetryBounded ==
  /\ request.fetchCalls <= 3
  /\ request.state \in {"returned", "threw"} => request.fetchCalls >= 1
  /\ request.fetchCalls =
       Len(request.codes) + (IF request.state = "returned" THEN 1 ELSE 0)
  /\ \A n \in 1..Len(request.codes) :
       /\ (n < Len(request.codes) \/ request.state # "threw")
            => request.codes[n] \in {408, 429, 500, 502, 503, 504}
       /\ request.kinds[n] = "network" => request.codes[n] = 500
  /\ Len(request.codes) = 3 => request.state = "threw"
  /\ request.state = "threw" =>
       /\ request.thrown = request.codes[Len(request.codes)]
       /\ \/ request.thrown \notin {408, 429, 500, 502, 503, 504}
          \/ Len(request.codes) = 3

RetryBoundedWitness ==
  /\ request.state = "threw"
  /\ request.kinds = <<"network", "http", "http">>
  /\ request.codes = <<500, 429, 503>>
  /\ request.fetchCalls = 3

\* C26: every failed attempt is logged through console.error exactly once
\* and every retry is announced through console.warn exactly once
FailuresLoggedOnce ==
  /\ request.errors = Len(request.codes)
  /\ request.warnings =
       Len(request.codes) - (IF request.state = "threw" THEN 1 ELSE 0)

RatesWellDefined ==
  snapshot.taken =>
    /\ \A rate \in {"successRate", "primarySuccessRate", "fallbackSuccessRate"} :
         /\ ~snapshot[rate].nan
         /\ snapshot[rate].hundredths \in 0..10000
    /\ snapshot.successRate.hundredths =
         snapshot.primarySuccessRate.hundredths
           + snapshot.fallbackSuccessRate.hundredths

====
